---------------------------- MODULE Spec2Model ----------------------------
(***************************************************************************)
(* The link decoration engine of the People Tracker plugin                 *)
(* (src/src/main.ts): the link resolver, the person classifier, the        *)
(* decorator, the view scanner and the reactive driver, together with the   *)
(* host editor they run in (workspace, metadata cache, vault adapter, DOM,  *)
(* timers, mutation observer).                                              *)
(*                                                                         *)
(* Strings are sequences of one-character strings, so that trimming,       *)
(* splitting and prefix tests are computed as the code computes them.      *)
(***************************************************************************)
EXTENDS Integers, Sequences, FiniteSets, TLC

(***************************************************************************)
(* Bounds of the model.                                                    *)
(***************************************************************************)
\* most timers pending at once; an event is not delivered beyond it
MaxTimers == 2
\* most changes made by the user and the host (settings, front-matter,
\* views, re-rendering) in one behaviour
MaxHostSteps == 2
\* most editor events in one burst (specification SpecBurst)
MaxBurst == 2
\* most tokens of a text the resolver is probed with (specification
\* SpecResolve)
MaxTokens == 4

None == "none"

(***************************************************************************)
(* String primitives of the JavaScript runtime.                            *)
(***************************************************************************)
WS == {" ", "\t"}

\* String.prototype.startsWith
StartsWith(s, p) == Len(p) <= Len(s) /\ SubSeq(s, 1, Len(p)) = p

\* the positions of s at which pat occurs
Occurrences(s, pat) ==
    {i \in 1..(Len(s) + 1 - Len(pat)) : SubSeq(s, i, i + Len(pat) - 1) = pat}

\* the least and the greatest element of a set of numbers; 0 when empty
Least(S) == IF S = {} THEN 0 ELSE CHOOSE i \in S : \A j \in S : i <= j
Greatest(S) == IF S = {} THEN 0 ELSE CHOOSE i \in S : \A j \in S : i >= j

\* String.prototype.indexOf, 1-based; 0 when pat does not occur
IndexOf(s, pat) == Least(Occurrences(s, pat))

\* String.prototype.lastIndexOf, 1-based; 0 when pat does not occur
LastIndexOf(s, pat) == Greatest(Occurrences(s, pat))

\* String.prototype.includes
Includes(s, pat) == IndexOf(s, pat) # 0

\* s.slice(0, i - 1) for an index i of indexOf; s when i = 0
Before(s, i) == IF i # 0 THEN SubSeq(s, 1, i - 1) ELSE s

\* s.slice(i - 1) for a 1-based i; s when i = 0
From(s, i) == IF i # 0 THEN SubSeq(s, i, Len(s)) ELSE s

\* s.split(pat)[0]
SplitFirst(s, pat) == Before(s, IndexOf(s, pat))

\* s.split(pat).pop()
SplitLast(s, pat) ==
    IF Includes(s, pat) THEN From(s, LastIndexOf(s, pat) + Len(pat)) ELSE s

\* the positions of s that hold no white space
Inked(s) == {i \in 1..Len(s) : s[i] \notin WS}

\* String.prototype.trim
Trim(s) == IF Inked(s) = {} THEN <<>> ELSE SubSeq(s, Least(Inked(s)), Greatest(Inked(s)))

\* s.replace(/\s+/g, ' ')
CollapseWS(s) ==
    LET keep == {i \in 1..Len(s) : s[i] \notin WS \/ i = Len(s) \/ s[i + 1] \notin WS}
        Pick(i) == IF s[i] \in WS THEN " " ELSE s[i]
        F[i \in 0..Len(s)] ==
            IF i = 0 THEN <<>>
            ELSE IF i \in keep THEN Append(F[i - 1], Pick(i)) ELSE F[i - 1]
    IN  F[Len(s)]

HexDigits == {"0", "1", "2", "3", "4", "5", "6", "7", "8", "9",
              "a", "b", "c", "d", "e", "f", "A", "B", "C", "D", "E", "F"}

\* The high hex digits of a one-byte (ASCII) escape.
AsciiHigh == {"0", "1", "2", "3", "4", "5", "6", "7"}

\* decodeURIComponent(s) throws URIError: some % is not followed by two hex
\* digits, or starts an escape that is not a complete UTF-8 sequence (a
\* lone byte >= 0x80 is malformed; multi-byte sequences are outside the
\* alphabet of the model and count as malformed).
DecodeThrows(s) ==
    \E i \in 1..Len(s) :
        /\ s[i] = "%"
        /\ \/ i + 2 > Len(s)
           \/ s[i + 1] \notin HexDigits
           \/ s[i + 2] \notin HexDigits
           \/ s[i + 1] \notin AsciiHigh

\* the replacement callback of cleanLinkPath
EncodeChar(c) ==
    CASE c = "%" -> <<"%", "2", "5">>
      [] c = "[" -> <<"%", "5", "B">>
      [] c = "]" -> <<"%", "5", "D">>
      [] c = "|" -> <<"%", "7", "C">>
      [] c = "&" -> <<"%", "2", "6">>
      [] c = "?" -> <<"%", "3", "F">>
      [] c = "#" -> <<"%", "2", "3">>
      [] OTHER   -> <<c>>

\* path.replace(/[%\[\]|&?#]/g, ...)
RECURSIVE EncodeSpecial(_)
EncodeSpecial(s) ==
    IF s = <<>> THEN <<>> ELSE EncodeChar(s[1]) \o EncodeSpecial(Tail(s))

\* if (path.includes(sep)) path = path.split(sep)[0].trim()
KeepBefore(path, sep) ==
    IF Includes(path, sep) THEN Trim(SplitFirst(path, sep)) ELSE path

\* a || b on strings
OrString(a, b) == IF a # <<>> THEN a ELSE b

\* if (path.includes('[[')) path = path.split('[[').pop()?.trim() || path
KeepAfterOpen(path) ==
    IF Includes(path, <<"[", "[">>)
    THEN OrString(Trim(SplitLast(path, <<"[", "[">>)), path)
    ELSE path

\* the end of cleanLinkPath: text content is whitespace-normalized; a URL
\* is returned as it is when it decodes, and encoded otherwise
Normalize(path, isTextContent) ==
    IF isTextContent THEN CollapseWS(path)
    ELSE IF ~DecodeThrows(path) THEN path
    ELSE CollapseWS(EncodeSpecial(path))

\* cleanLinkPath(path, isTextContent)
cleanLinkPath(path, isTextContent) ==
    IF path = <<>> THEN <<>>
    ELSE Normalize(KeepAfterOpen(KeepBefore(KeepBefore(Trim(path), <<"|">>),
                                            <<"]", "]">>)),
                   isTextContent)


(***************************************************************************)
(* The host: vault, metadata cache, workspace and DOM.                      *)
(***************************************************************************)
PeopleFolder == <<"S", "e", "t", "s", "/", "P", "e", "o", "p", "l", "e">>
AvatarFolder == <<"_", "M", "e", "t", "a", "/", "A", "v", "a", "t", "a", "r", "s">>
AdaPng == <<"a", "d", "a", ".", "p", "n", "g">>
BobPng == <<"b", "o", "b", ".", "p", "n", "g">>
GonePng == <<"g", "o", "n", "e", ".", "p", "n", "g">>
MdExt == <<".", "m", "d">>

\* the notes of the vault (TFile handles)
Notes == {"Ada", "Bob", "Sibling", "Foo"}

\* TFile.path
NotePath(f) ==
    CASE f = "Ada"     -> PeopleFolder \o <<"/", "A", "d", "a">> \o MdExt
      [] f = "Bob"     -> PeopleFolder \o <<"/", "B", "o", "b">> \o MdExt
      [] f = "Sibling" -> PeopleFolder \o <<"O", "t", "h", "e", "r", "/", "x">> \o MdExt
      [] f = "Foo"     -> <<"N", "o", "t", "e", "s", "/", "I", "d", "e", "a", "s", "/", "F", "o", "o">> \o MdExt

\* TFile.basename
BaseName(f) ==
    CASE f = "Ada"     -> <<"A", "d", "a">>
      [] f = "Bob"     -> <<"B", "o", "b">>
      [] f = "Sibling" -> <<"x">>
      [] f = "Foo"     -> <<"F", "o", "o">>

\* app.metadataCache.getFirstLinkpathDest(linkpath, sourcePath): the note
\* whose path (without extension) or whose base name is the link path.
getFirstLinkpathDest(linkpath, sourcePath) ==
    LET hit == {f \in Notes : linkpath \o MdExt = NotePath(f) \/ linkpath = BaseName(f)}
    IN  IF hit = {} THEN None ELSE CHOOSE f \in hit : TRUE

\* the paths that exist in the vault
VaultPaths == {PeopleFolder, AvatarFolder, AvatarFolder \o <<"/">> \o AdaPng,
               AvatarFolder \o <<"/">> \o BobPng}
                  \cup {NotePath(f) : f \in Notes}

\* app.vault.adapter.exists(path), read as the boolean the host contract
\* gives it
AdapterExists(path) == path \in VaultPaths

\* app.vault.adapter.getResourcePath(path)
getResourcePath(path) ==
    <<"a", "p", "p", ":", "/", "/", "v", "a", "u", "l", "t", "/">> \o path

\* What getFileCache can return for a note: null, a cache without
\* front-matter, front-matter without the avatar key, or with it.
CacheNull == [cache |-> FALSE, frontmatter |-> FALSE, hasAvatar |-> FALSE, avatar |-> <<>>]
CacheNoFrontmatter == [cache |-> TRUE, frontmatter |-> FALSE, hasAvatar |-> FALSE, avatar |-> <<>>]
CacheNoAvatarKey == [cache |-> TRUE, frontmatter |-> TRUE, hasAvatar |-> FALSE, avatar |-> <<>>]
CacheAvatar(name) == [cache |-> TRUE, frontmatter |-> TRUE, hasAvatar |-> TRUE, avatar |-> name]

CacheChoices == {CacheNull, CacheNoAvatarKey, CacheAvatar(AdaPng), CacheAvatar(BobPng),
                 CacheAvatar(GonePng)}

\* the notes whose metadata the user edits during the session
EditedNotes == {"Bob"}

\* cache?.frontmatter?.avatar, with undefined read as the empty string
\* (only its truthiness is used)
AvatarOf(c) ==
    IF c.cache /\ c.frontmatter /\ c.hasAvatar THEN c.avatar ELSE <<>>

\* JavaScript truthiness of a string (or null / undefined)
Truthy(s) == s # <<>>

(***************************************************************************)
(* The DOM.  Two Markdown views; v1 shows two rendered sections with       *)
(* preview anchors and one editor-mode container/underline pair, v2 a     *)
(* note without links.  A view's node is its contentEl.                    *)
(***************************************************************************)
Views == {"v1", "v2"}

\* the views the user closes and opens again during the session
ClosableViews == {"v2"}
Nodes == {"v1", "s1", "a1", "a2", "s2", "a3", "c1", "u1", "v2"}

\* document order
DocOrder == <<"v1", "s1", "a1", "a2", "s2", "a3", "c1", "u1", "v2">>

Parent(n) ==
    CASE n \in {"s1", "s2", "c1"} -> "v1"
      [] n \in {"a1", "a2"}       -> "s1"
      [] n = "a3"                 -> "s2"
      [] n = "u1"                 -> "c1"
      [] OTHER                    -> None

Tag(n) ==
    CASE n \in {"a1", "a2", "a3"} -> "a"
      [] n \in {"c1", "u1"}       -> "span"
      [] OTHER                    -> "div"

\* Node.textContent of the nodes the host renders into the views
RenderedText(n) ==
    CASE n = "a1"           -> <<"A", "d", "a">>
      [] n = "a2"           -> <<"F", "o", "o">>
      [] n = "a3"           -> <<"t", "h", "e", " ", "x">>
      [] n \in {"c1", "u1"} -> <<"B", "o", "b">>
      [] OTHER              -> <<>>

\* the node as the host renders it
Pristine(n) ==
    CASE n = "a1" -> [classes |-> {"internal-link"},
                      attrs |-> [x \in {"data-href", "href", "target"} |->
                                   IF x = "target" THEN <<"_", "b", "l", "a", "n", "k">>
                                   ELSE PeopleFolder \o <<"/", "A", "d", "a">>],
                      style |-> <<>>]
      [] n = "a2" -> [classes |-> {"internal-link"},
                      attrs |-> [x \in {"data-href"} |-> <<"F", "o", "o">>],
                      style |-> <<>>]
      [] n = "a3" -> [classes |-> {"internal-link", "is-unresolved"},
                      attrs |-> [x \in {"href"} |->
                                   PeopleFolder \o <<"O", "t", "h", "e", "r", "/", "x">>],
                      style |-> <<>>]
      [] n = "c1" -> [classes |-> {"cm-hmd-internal-link"}, attrs |-> <<>>, style |-> <<>>]
      [] n = "u1" -> [classes |-> {"cm-underline"}, attrs |-> <<>>, style |-> <<>>]
      [] n \in {"s1", "s2"} ->
                     [classes |-> {"markdown-preview-section"}, attrs |-> <<>>, style |-> <<>>]
      [] OTHER    -> [classes |-> {"view-content"}, attrs |-> <<>>, style |-> <<>>]

\* the view whose contentEl holds the node
RECURSIVE ViewOf(_)
ViewOf(n) == IF n \in Views THEN n ELSE ViewOf(Parent(n))

\* whether node n lies in the subtree of root (root excluded)
RECURSIVE IsDescendant(_, _)
IsDescendant(n, root) ==
    /\ Parent(n) # None
    /\ (Parent(n) = root \/ IsDescendant(Parent(n), root))

\* view.file?.path || ''
ViewFilePath(v) ==
    IF v = "v1" THEN <<"N", "o", "t", "e", "s", "/", "D", "a", "y", ".", "m", "d">>
    ELSE <<>>

(***************************************************************************)
(* The elements tryGetLinkTarget is probed with: one element outside the   *)
(* views, with any text of up to MaxTokens tokens, with or without the     *)
(* class cm-underline, and with or without the two attributes.             *)
(***************************************************************************)
ProbeNode == "p1"

Tokens == {<<"x">>, <<" ">>, <<"|">>, <<"[", "[">>, <<"]", "]">>}

RECURSIVE TextsOf(_)
TextsOf(k) ==
    IF k = 0 THEN {<<>>}
    ELSE TextsOf(k - 1) \cup {s \o tok : s \in TextsOf(k - 1), tok \in Tokens}

ProbeTexts == TextsOf(MaxTokens)

\* data-href: none, a note outside the people folder, no note
ProbeDataHrefs == {<<>>, <<"F", "o", "o">>, <<"N", "o", "p", "e">>}

\* href: none, a note of the people folder
ProbeHrefs == {<<>>, PeopleFolder \o <<"/", "A", "d", "a">>}

ProbeCalls == {"text", "data-href", "href"}

Probes ==
    [text : ProbeTexts, underline : BOOLEAN, dataHref : ProbeDataHrefs, href : ProbeHrefs,
     throws : SUBSET ProbeCalls, done : {FALSE}, result : {None}]

\* the probe before any element is handed to the resolver
NoProbe == [text |-> <<>>, underline |-> FALSE, dataHref |-> <<>>, href |-> <<>>,
            throws |-> {}, done |-> FALSE, result |-> None]

(***************************************************************************)
(* State.                                                                  *)
(***************************************************************************)
VARIABLES
    settings,         \* this.settings
    saved,            \* the data persisted by saveData: <<mapping>>, or <<>> for none
    fileCache,        \* the metadata cache: note -> what getFileCache returns
    dom,              \* node -> [classes, attrs, style]
    activeView,       \* workspace.getActiveViewOfType(MarkdownView), or None
    connected,        \* the views whose contentEl.isConnected
    timers,           \* the pending timers, in firing order (all delays are 100 ms)
    processTimer,     \* this.processTimer: a timer id, 0 for null
    observed,         \* the views whose contentEl the mutation observer observes
    mutationPending,  \* mutation records are queued for the observer
    log,              \* the last step: the view it scanned, whether it wrote to the DOM,
                      \* whether an exception left the callback, the host calls that threw
    hostSteps,        \* the changes the user and the host have made so far
    burst,            \* events and scans counted in a burst (SpecBurst)
    probe             \* an element handed to tryGetLinkTarget and the result
                      \* (SpecResolve)

vars == <<settings, saved, fileCache, dom, activeView, connected, timers,
          processTimer, observed, mutationPending, log, hostSteps, burst, probe>>

\* Node.textContent
TextContent(n) == IF n = ProbeNode THEN probe.text ELSE RenderedText(n)

\* the probed element as a DOM of its own
ProbeDom ==
    [n \in {ProbeNode} |->
        [classes |-> IF probe.underline THEN {"cm-underline"} ELSE {"internal-link"},
         attrs |-> [a \in {x \in {"data-href", "href"} :
                               (IF x = "href" THEN probe.href ELSE probe.dataHref) # <<>>} |->
                       IF a = "href" THEN probe.href ELSE probe.dataHref],
         style |-> <<>>]]

DEFAULT_SETTINGS ==
    [enableAvatars |-> TRUE, avatarFolderPath |-> <<>>, peopleFolderPath |-> PeopleFolder]

\* what the user can type into the two folder fields
AvatarFolderInputs == {<<>>, AvatarFolder}
PeopleFolderInputs == {<<>>, PeopleFolder}

\* the mappings saveSettings can have persisted in an earlier session
SavedChoices ==
    {<<>>} \cup {<<[enableAvatars |-> b, avatarFolderPath |-> AvatarFolder,
                    peopleFolderPath |-> PeopleFolder]>> : b \in BOOLEAN}

\* loadSettings: Object.assign({}, DEFAULT_SETTINGS, await this.loadData())
loadSettings(data) == IF data = <<>> THEN DEFAULT_SETTINGS ELSE data[1]

(***************************************************************************)
(* Host calls that throw.  A step names at most one candidate element and  *)
(* the host calls that throw while that candidate is processed.            *)
(***************************************************************************)
NoThrow == [node |-> None, calls |-> {}]

ThrowChoices ==
    {NoThrow, [node |-> "a1", calls |-> {"data-href", "href"}],
              [node |-> "u1", calls |-> {"getFileCache"}]}

Throws(thr, n, call) == thr.node = n /\ call \in thr.calls

\* the host calls made outside any candidate (the active-view lookup, the
\* DOM query) throw
HostThrows(thr, call) == Throws(thr, None, call)

(***************************************************************************)
(* DOM primitives.  st is the DOM with the writes made so far:             *)
(* [dom, writes].                                                          *)
(***************************************************************************)
SENTINEL == "person-link-processed"

\* element.hasClass(c) / element.classList.contains(c)
hasClass(d, n, c) == c \in d[n].classes

\* element.getAttribute(a), with null read as the empty string
getAttribute(d, n, a) ==
    IF a \in DOMAIN d[n].attrs THEN d[n].attrs[a] ELSE <<>>

\* element.closest('.' + c): the element itself or its nearest ancestor
RECURSIVE closest(_, _, _)
closest(d, n, c) ==
    IF n = None THEN None
    ELSE IF hasClass(d, n, c) THEN n
    ELSE closest(d, Parent(n), c)

Put(f, k, v) == [x \in (DOMAIN f) \cup {k} |-> IF x = k THEN v ELSE f[x]]

\* element.setAttribute(name, value)
setAttribute(st, n, name, value) ==
    [dom |-> [st.dom EXCEPT ![n].attrs = Put(@, name, value)],
     writes |-> st.writes \cup {[node |-> n, op |-> "setAttribute", name |-> name]}]

\* element.style.setProperty(name, value)
setProperty(st, n, name, value) ==
    [dom |-> [st.dom EXCEPT ![n].style = Put(@, name, value)],
     writes |-> st.writes \cup {[node |-> n, op |-> "setProperty", name |-> name]}]

\* element.addClass(...cs)
addClass(st, n, cs) ==
    [dom |-> [st.dom EXCEPT ![n].classes = @ \cup cs],
     writes |-> st.writes \cup {[node |-> n, op |-> "addClass", name |-> c] : c \in cs}]

\* root.querySelectorAll(selectors) in document order; a selector is a
\* [tag, class] pair, tag None for any
querySelectorAll(d, root, selectors) ==
    SelectSeq(DocOrder,
              LAMBDA n : /\ IsDescendant(n, root)
                         /\ \E s \in selectors :
                               /\ s.tag \in {None, Tag(n)}
                               /\ hasClass(d, n, s.class))

\* `url(${imageUrl})`
CssUrl(imageUrl) == <<"u", "r", "l", "(">> \o imageUrl \o <<")">>

(***************************************************************************)
(* Link resolver.                                                          *)
(***************************************************************************)
\* the strings the host renders into link elements
LinkStrings ==
    {RenderedText(n) : n \in Nodes}
        \cup ProbeTexts \cup ProbeDataHrefs \cup ProbeHrefs
        \cup UNION {{Pristine(n).attrs[a] : a \in DOMAIN Pristine(n).attrs} : n \in Nodes}

\* cleanLinkPath tabulated on LinkStrings (every string the resolver reads
\* from an element is one of them), so that it is computed once
CleanTable ==
    [raw \in LinkStrings |-> [b \in BOOLEAN |-> cleanLinkPath(raw, b)]]

\* this.cleanLinkPath(raw, isTextContent)
Cleaned(raw, isTextContent) == CleanTable[raw][isTextContent]

\* one guarded lookup: try { getFirstLinkpathDest(cleanLinkPath(..)) } catch
Lookup(raw, isTextContent, sourcePath, throws) ==
    IF throws THEN None
    ELSE getFirstLinkpathDest(Cleaned(raw, isTextContent), sourcePath)

\* the first result that is a note
OrElse(a, b) == IF a # None THEN a ELSE b

\* tryGetLinkTarget with one try block around the whole resolution: the
\* first lookup that throws ends it
tryGetLinkTargetSingleTry(d, element, sourcePath, thr) ==
    LET underline == hasClass(d, element, "cm-underline")
        order == IF underline THEN <<"text", "data-href", "href">>
                 ELSE <<"data-href", "href", "text">>
        raw(src) == IF src = "text" THEN TextContent(element)
                    ELSE getAttribute(d, element, src)
        match(src) == IF Truthy(raw(src))
                      THEN getFirstLinkpathDest(Cleaned(raw(src), src = "text"), sourcePath)
                      ELSE None
        ends(i) == Truthy(raw(order[i]))
                      /\ (Throws(thr, element, order[i]) \/ match(order[i]) # None)
        first == Least({i \in 1..3 : ends(i)})
    IN  IF first = 0 THEN None
        ELSE IF Throws(thr, element, order[first]) THEN None
        ELSE match(order[first])

\* tryGetLinkTarget without the priority of the text of an editor-mode
\* span: the attributes come first for every element
tryGetLinkTargetAttributesFirst(d, element, sourcePath, thr) ==
    LET text == TextContent(element)
        byAttr(attr) ==
            IF Truthy(getAttribute(d, element, attr))
            THEN Lookup(getAttribute(d, element, attr), FALSE, sourcePath,
                        Throws(thr, element, attr))
            ELSE None
        byText ==
            IF Truthy(text)
            THEN Lookup(text, TRUE, sourcePath, Throws(thr, element, "text"))
            ELSE None
    IN  OrElse(byAttr("data-href"), OrElse(byAttr("href"), byText))

\* tryGetLinkTarget(element, sourcePath)
tryGetLinkTarget(d, element, sourcePath, thr) ==
    LET text == TextContent(element)
        underline == hasClass(d, element, "cm-underline")
        byUnderline ==
            IF underline /\ Truthy(text)
            THEN Lookup(text, TRUE, sourcePath, Throws(thr, element, "text"))
            ELSE None
        byAttr(attr) ==
            IF Truthy(getAttribute(d, element, attr))
            THEN Lookup(getAttribute(d, element, attr), FALSE, sourcePath,
                        Throws(thr, element, attr))
            ELSE None
        byText ==
            IF Truthy(text) /\ ~underline
            THEN Lookup(text, TRUE, sourcePath, Throws(thr, element, "text"))
            ELSE None
    IN  OrElse(byUnderline, OrElse(byAttr("data-href"), OrElse(byAttr("href"), byText)))

(***************************************************************************)
(* Person classifier and decorator.                                        *)
(***************************************************************************)
\* targetFile.path.startsWith(this.settings.peopleFolderPath)
IsPerson(targetFile) == StartsWith(NotePath(targetFile), settings.peopleFolderPath)

\* if (parentElement && linkEl !== parentElement) linkEl.addClass(..)
StyleUnderline(st, linkEl, parentElement) ==
    IF parentElement # None /\ linkEl # parentElement
    THEN addClass(st, linkEl, {"data-link-icon", "person-link"})
    ELSE st

\* StyleElement with the classes assigned (className = '...') instead of
\* added: the element loses the classes it had
StyleElementAssigningClasses(st, elementToProcess, imageUrl) ==
    LET s == setProperty(setAttribute(st, elementToProcess, "data-link-avatar", imageUrl),
                         elementToProcess, "--data-link-avatar", CssUrl(imageUrl))
    IN  [dom |-> [s.dom EXCEPT ![elementToProcess].classes =
                      {"data-link-icon", "person-link", SENTINEL}],
         writes |-> s.writes \cup {[node |-> elementToProcess, op |-> "addClass", name |-> c] :
                                      c \in {"data-link-icon", "person-link", SENTINEL}}]

\* the three writes of processPersonLink to the element it decorates
StyleElement(st, elementToProcess, imageUrl) ==
    addClass(setProperty(setAttribute(st, elementToProcess, "data-link-avatar", imageUrl),
                         elementToProcess, "--data-link-avatar", CssUrl(imageUrl)),
             elementToProcess, {"data-link-icon", "person-link", SENTINEL})

\* the writes of processPersonLink once the image URL is known
ApplyStyles(st, linkEl, parentElement, imageUrl) ==
    StyleUnderline(StyleElement(st, OrElse(parentElement, linkEl), imageUrl),
                   linkEl, parentElement)

\* processPersonLink taking the decoration back from an element whose
\* avatar cannot be shown (any more)
processPersonLinkRetracting(st, linkEl, cache, thr, who) ==
    LET avatarName == AvatarOf(cache)
        avatarPath == settings.avatarFolderPath \o <<"/">> \o avatarName
        plain == [dom |-> [st.dom EXCEPT ![linkEl].classes =
                              @ \ {"data-link-icon", "person-link", SENTINEL}],
                  writes |-> st.writes \cup {[node |-> linkEl, op |-> "removeClass",
                                              name |-> SENTINEL]}]
    IN  IF ~Truthy(avatarName) THEN plain
        ELSE IF ~Truthy(settings.avatarFolderPath) THEN plain
        ELSE IF ~AdapterExists(avatarPath) THEN plain
        ELSE IF Throws(thr, who, "getResourcePath") THEN st
        ELSE ApplyStyles(st, linkEl, closest(st.dom, linkEl, "cm-hmd-internal-link"),
                         getResourcePath(avatarPath))

\* processPersonLink marking the element as processed before it asks the
\* host for the URL: a throw of getResourcePath leaves the sentinel behind
processPersonLinkMarkingFirst(st, linkEl, cache, thr, who) ==
    LET avatarName == AvatarOf(cache)
        avatarPath == settings.avatarFolderPath \o <<"/">> \o avatarName
    IN  IF ~Truthy(avatarName) THEN st
        ELSE IF ~Truthy(settings.avatarFolderPath) THEN st
        ELSE IF ~AdapterExists(avatarPath) THEN st
        ELSE IF Throws(thr, who, "getResourcePath") THEN addClass(st, linkEl, {SENTINEL})
        ELSE ApplyStyles(st, linkEl, closest(st.dom, linkEl, "cm-hmd-internal-link"),
                         getResourcePath(avatarPath))

\* processPersonLink(linkEl, cache); a host call that throws leaves the
\* candidate as it was (the caller catches)
processPersonLink(st, linkEl, cache, thr, who) ==
    LET avatarName == AvatarOf(cache)
        avatarPath == settings.avatarFolderPath \o <<"/">> \o avatarName
    IN  IF ~Truthy(avatarName) THEN st
        ELSE IF ~Truthy(settings.avatarFolderPath) THEN st
        ELSE IF ~AdapterExists(avatarPath) THEN st
        ELSE IF Throws(thr, who, "getResourcePath") THEN st
        ELSE ApplyStyles(st, linkEl, closest(st.dom, linkEl, "cm-hmd-internal-link"),
                         getResourcePath(avatarPath))

\* what both forEach callbacks do once the link is resolved: classify,
\* read the file cache, decorate
ProcessTarget(st, element, elementToProcess, targetFile, thr) ==
    IF targetFile = None THEN st
    ELSE IF ~IsPerson(targetFile) THEN st
    ELSE IF Throws(thr, element, "getFileCache") THEN st
    ELSE IF ~Truthy(AvatarOf(fileCache[targetFile])) THEN st
    ELSE processPersonLink(st, elementToProcess, fileCache[targetFile], thr, element)

\* the element processAllLinksInView decorates for a candidate
ElementToProcess(d, element) ==
    IF hasClass(d, element, "cm-underline")
    THEN OrElse(closest(d, element, "cm-hmd-internal-link"), element)
    ELSE element

\* the body of the forEach callback of processAllLinksInView
ProcessViewLink(st, element, sourcePath, thr) ==
    IF hasClass(st.dom, element, SENTINEL) THEN st
    ELSE ProcessTarget(st, element, ElementToProcess(st.dom, element),
                       tryGetLinkTarget(st.dom, element, sourcePath, thr), thr)

\* ProcessSectionLink without the people-folder test of its copy in
\* processAllLinksInView: the two copies of the pipeline drifted apart
ProcessSectionLinkUnclassified(st, element, sourcePath, thr) ==
    LET targetFile == tryGetLinkTarget(st.dom, element, sourcePath, thr)
    IN  IF hasClass(st.dom, element, SENTINEL) THEN st
        ELSE IF targetFile = None THEN st
        ELSE IF ~Truthy(AvatarOf(fileCache[targetFile])) THEN st
        ELSE processPersonLink(st, element, fileCache[targetFile], thr, element)

\* the body of the forEach callback of processSection
ProcessSectionLink(st, element, sourcePath, thr) ==
    IF hasClass(st.dom, element, SENTINEL) THEN st
    ELSE ProcessTarget(st, element, element,
                       tryGetLinkTarget(st.dom, element, sourcePath, thr), thr)

RECURSIVE ForEachViewLink(_, _, _, _)
ForEachViewLink(st, links, sourcePath, thr) ==
    IF links = <<>> THEN st
    ELSE ForEachViewLink(ProcessViewLink(st, Head(links), sourcePath, thr),
                         Tail(links), sourcePath, thr)

RECURSIVE ForEachSectionLink(_, _, _, _)
ForEachSectionLink(st, links, sourcePath, thr) ==
    IF links = <<>> THEN st
    ELSE ForEachSectionLink(ProcessSectionLink(st, Head(links), sourcePath, thr),
                            Tail(links), sourcePath, thr)

ViewSelectors == {[tag |-> "a", class |-> "internal-link"],
                  [tag |-> None, class |-> "cm-underline"],
                  [tag |-> None, class |-> "cm-hmd-internal-link"]}

\* processAllLinksInView without the test of isConnected
processAllLinksInViewUnguarded(st, view, thr) ==
    IF HostThrows(thr, "querySelectorAll") THEN st
    ELSE ForEachViewLink(st, querySelectorAll(st.dom, view, ViewSelectors),
                         ViewFilePath(view), thr)

\* processAllLinksInView(view)
processAllLinksInView(st, view, thr) ==
    IF view \notin connected THEN st
    ELSE IF HostThrows(thr, "querySelectorAll") THEN st
    ELSE ForEachViewLink(st, querySelectorAll(st.dom, view, ViewSelectors),
                         ViewFilePath(view), thr)

\* processSection querying the whole view of the section
processSectionOfView(st, el, sourcePath, thr) ==
    IF HostThrows(thr, "querySelectorAll") THEN st
    ELSE ForEachSectionLink(st,
                            querySelectorAll(st.dom, ViewOf(el),
                                             {[tag |-> "a", class |-> "internal-link"]}),
                            sourcePath, thr)

\* processSection(el, ctx)
processSection(st, el, sourcePath, thr) ==
    IF HostThrows(thr, "querySelectorAll") THEN st
    ELSE ForEachSectionLink(st,
                            querySelectorAll(st.dom, el,
                                             {[tag |-> "a", class |-> "internal-link"]}),
                            sourcePath, thr)

(***************************************************************************)
(* Reactive driver.  dr is the state a callback works on:                  *)
(* [dom, writes, timers, processTimer, scans, scanned, escaped]; escaped   *)
(* says that the callback ended by an exception it did not catch.          *)
(***************************************************************************)
TimerIds(tm) == {tm[i].id : i \in 1..Len(tm)}

\* the id setTimeout returns: one no pending timer and no held handle has
NewTimerId(tm, held) ==
    CHOOSE i \in 1..(Len(tm) + 2) :
        /\ i \notin TimerIds(tm) \cup {held}
        /\ \A j \in 1..(Len(tm) + 2) : j \notin TimerIds(tm) \cup {held} => i <= j

\* clearTimeout(id): no effect when the timer has fired already
clearTimeout(tm, id) == SelectSeq(tm, LAMBDA t : t.id # id)

\* setTimeout(callback, 100)
setTimeout(tm, id, kind, view) == Append(tm, [id |-> id, kind |-> kind, view |-> view])

\* the callbacks that are timers calling processCurrentView
PcvCount(tm) == Len(SelectSeq(tm, LAMBDA t : t.kind = "pcv"))

Start == [dom |-> dom, writes |-> {}, timers |-> timers, processTimer |-> processTimer,
          scans |-> 0, scanned |-> None, escaped |-> FALSE]

\* an exception leaves the callback
Escaped(dr) == [dr EXCEPT !.escaped = TRUE]

\* the driver's state after a scan that left the DOM as st
Scanned(dr, st, view) ==
    [dr EXCEPT !.dom = st.dom, !.writes = st.writes, !.scans = @ + 1, !.scanned = view]

\* a scan that takes the view active at the time of the call instead of
\* the one it is given
ScanActiveView(dr, view, thr) ==
    Scanned(dr, processAllLinksInView([dom |-> dr.dom, writes |-> dr.writes], activeView,
                                      thr),
            activeView)

\* a call of processAllLinksInView(view) from the driver
Scan(dr, view, thr) ==
    Scanned(dr, processAllLinksInView([dom |-> dr.dom, writes |-> dr.writes], view, thr),
            view)

\* processCurrentView without the clearTimeout
ClearProcessTimerNever(dr) == dr

\* if (this.processTimer) clearTimeout(this.processTimer)
ClearProcessTimer(dr) ==
    IF dr.processTimer # 0
    THEN [dr EXCEPT !.timers = clearTimeout(dr.timers, dr.processTimer)]
    ELSE dr

\* this.processTimer = setTimeout(() => this.processAllLinksInView(view), 100)
SetProcessTimer(dr, view, id) ==
    [dr EXCEPT !.timers = setTimeout(dr.timers, id, "scan", view), !.processTimer = id]

\* processCurrentView() once the pending timer is cleared
ProcessActiveView(dr, view, thr) ==
    IF view = None THEN dr
    ELSE SetProcessTimer(Scan(dr, view, thr), view, NewTimerId(dr.timers, 0))

\* const view = this.app.workspace.getActiveViewOfType(MarkdownView), which
\* no try block surrounds
LookupActiveView(dr, thr) ==
    IF HostThrows(thr, "getActiveViewOfType") THEN Escaped(dr)
    ELSE ProcessActiveView(dr, activeView, thr)

\* processCurrentView()
processCurrentView(dr, thr) == LookupActiveView(ClearProcessTimer(dr), thr)

\* setTimeout(() => this.processCurrentView(), 100), not reached when
\* processCurrentView() threw
SetUntrackedTimer(dr) ==
    IF dr.escaped THEN dr
    ELSE [dr EXCEPT !.timers =
             setTimeout(dr.timers, NewTimerId(dr.timers, dr.processTimer), "pcv", None)]

\* handleEditorChange()
handleEditorChange(dr, thr) == SetUntrackedTimer(processCurrentView(dr, thr))

\* saveSettings(): the mapping persisted afterwards
saveSettings(s, old) ==
    IF ~Truthy(s.avatarFolderPath) THEN old
    ELSE IF ~Truthy(s.peopleFolderPath) THEN old
    ELSE IF ~AdapterExists(s.avatarFolderPath) THEN old
    ELSE IF ~AdapterExists(s.peopleFolderPath) THEN old
    ELSE <<s>>

(***************************************************************************)
(* Steps.  The observer's callback is a microtask: while records are       *)
(* queued it runs before any other callback.                               *)
(***************************************************************************)
\* the class writes inside an observed view queue mutation records
QueuesRecords(writes) ==
    \E w \in writes : w.op = "addClass" /\ ViewOf(w.node) \in observed

NoLog == [view |-> None, wrote |-> FALSE, escaped |-> FALSE, fault |-> NoThrow]

\* the driver's state after a post-processor run that left the DOM as st
Wrote(dr, st) == [dr EXCEPT !.dom = st.dom, !.writes = st.writes]

\* what the log says of a callback
LogOf(dr, fault) ==
    [view |-> dr.scanned, wrote |-> dr.writes # {}, escaped |-> dr.escaped, fault |-> fault]

\* what a callback of the engine leaves of the plugin and the DOM
Effects(dr) ==
    /\ dom' = dr.dom
    /\ timers' = dr.timers
    /\ processTimer' = dr.processTimer
    /\ mutationPending' = QueuesRecords(dr.writes)
    /\ UNCHANGED <<settings, saved, fileCache, activeView, connected, observed>>

\* the state left by a callback of the engine
Commit(dr, thr) == Effects(dr) /\ log' = LogOf(dr, NoThrow)

\* the same, the log naming the host calls that threw
CommitFault(dr, thr) == Effects(dr) /\ log' = LogOf(dr, thr)

\* workspace.on('file-open')
FileOpen ==
    /\ ~mutationPending
    /\ \E thr \in {NoThrow} : Commit(processCurrentView(Start, thr), thr)
    /\ UNCHANGED <<hostSteps, burst, probe>>

\* workspace.on('active-leaf-change')
ActiveLeafChange ==
    /\ ~mutationPending
    /\ PcvCount(timers) + 1 < MaxTimers
    /\ \E thr \in {NoThrow} : Commit(handleEditorChange(Start, thr), thr)
    /\ UNCHANGED <<hostSteps, burst, probe>>

\* workspace.on('editor-change')
EditorChange ==
    /\ ~mutationPending
    /\ activeView # None
    /\ PcvCount(timers) + 1 < MaxTimers
    /\ \E thr \in {NoThrow} : Commit(handleEditorChange(Start, thr), thr)
    /\ UNCHANGED <<hostSteps, burst, probe>>

\* a layout-change that re-attaches the observer: the active view becomes
\* its only target
LayoutChangeReattaching ==
    /\ ~mutationPending
    /\ observed' = IF activeView # None THEN {activeView} ELSE observed
    /\ log' = NoLog
    /\ UNCHANGED <<settings, saved, fileCache, dom, activeView, connected, timers,
                   processTimer, mutationPending, hostSteps, burst, probe>>

\* workspace.on('layout-change')
LayoutChange ==
    /\ ~mutationPending
    /\ observed' = IF activeView # None THEN observed \cup {activeView} ELSE observed
    /\ log' = NoLog
    /\ UNCHANGED <<settings, saved, fileCache, dom, activeView, connected, timers,
                   processTimer, mutationPending, hostSteps, burst, probe>>

\* the markdown post-processor, called on a rendered section
PostProcessor ==
    /\ ~mutationPending
    /\ \E el \in {"s1", "s2"}, thr \in ThrowChoices :
          Commit(Wrote(Start, processSection([dom |-> dom, writes |-> {}], el,
                                             ViewFilePath(ViewOf(el)), thr)), thr)
    /\ UNCHANGED <<hostSteps, burst, probe>>

\* the tracked timer fires: () => this.processAllLinksInView(view)
TimerScan ==
    /\ ~mutationPending
    /\ timers # <<>>
    /\ Head(timers).kind = "scan"
    /\ \E thr \in {NoThrow} :
          Commit(Scan([Start EXCEPT !.timers = Tail(timers)], Head(timers).view, thr), thr)
    /\ UNCHANGED <<hostSteps, burst, probe>>

\* the timer of handleEditorChange fires: () => this.processCurrentView()
TimerProcess ==
    /\ ~mutationPending
    /\ timers # <<>>
    /\ Head(timers).kind = "pcv"
    /\ \E thr \in {NoThrow} :
          Commit(processCurrentView([Start EXCEPT !.timers = Tail(timers)], thr), thr)
    /\ UNCHANGED <<hostSteps, burst, probe>>

\* the MutationObserver callback
ObserverCallback ==
    /\ mutationPending
    /\ \E thr \in {NoThrow} : Commit(processCurrentView(Start, thr), thr)
    /\ UNCHANGED <<hostSteps, burst, probe>>

\* a change in the settings tab, followed by saveSettings()
Changed(s) ==
    /\ ~mutationPending
    /\ hostSteps < MaxHostSteps
    /\ hostSteps' = hostSteps + 1
    /\ s # settings
    /\ settings' = s
    /\ saved' = saveSettings(s, saved)
    /\ log' = NoLog
    /\ UNCHANGED <<fileCache, dom, activeView, connected, timers, processTimer,
                   observed, mutationPending, burst, probe>>

ToggleAvatars == Changed([settings EXCEPT !.enableAvatars = ~@])

SetAvatarFolder ==
    /\ settings.enableAvatars
    /\ \E v \in AvatarFolderInputs : Changed([settings EXCEPT !.avatarFolderPath = v])

SetPeopleFolder ==
    \E v \in PeopleFolderInputs : Changed([settings EXCEPT !.peopleFolderPath = v])

(***************************************************************************)
(* Steps of the host.                                                      *)
(***************************************************************************)
\* another view, or none, becomes the active Markdown view
HostSetActive ==
    /\ ~mutationPending
    /\ hostSteps < MaxHostSteps
    /\ hostSteps' = hostSteps + 1
    /\ \E v \in connected \cup {None} :
          /\ v # activeView
          /\ activeView' = v
    /\ log' = NoLog
    /\ UNCHANGED <<settings, saved, fileCache, dom, connected, timers, processTimer,
                   observed, mutationPending, burst, probe>>

\* a view is closed: its contentEl leaves the document
HostClose ==
    /\ ~mutationPending
    /\ hostSteps < MaxHostSteps
    /\ hostSteps' = hostSteps + 1
    /\ \E v \in connected \cap ClosableViews :
          /\ connected' = connected \ {v}
          /\ activeView' = IF activeView = v THEN None ELSE activeView
    /\ log' = NoLog
    /\ UNCHANGED <<settings, saved, fileCache, dom, timers, processTimer, observed,
                   mutationPending, burst, probe>>

\* a closed view is shown again
HostOpen ==
    /\ ~mutationPending
    /\ hostSteps < MaxHostSteps
    /\ hostSteps' = hostSteps + 1
    /\ \E v \in Views \ connected : connected' = connected \cup {v}
    /\ log' = NoLog
    /\ UNCHANGED <<settings, saved, fileCache, dom, activeView, timers, processTimer,
                   observed, mutationPending, burst, probe>>

\* the host renders a view's content again: fresh nodes replace the old
HostRerender ==
    /\ ~mutationPending
    /\ hostSteps < MaxHostSteps
    /\ hostSteps' = hostSteps + 1
    /\ \E v \in connected :
          /\ dom' = [n \in Nodes |-> IF ViewOf(n) = v THEN Pristine(n) ELSE dom[n]]
          /\ mutationPending' = (v \in observed)
    /\ log' = NoLog
    /\ UNCHANGED <<settings, saved, fileCache, activeView, connected, timers,
                   processTimer, observed, burst, probe>>

\* the user edits a note's front-matter
MetadataChange ==
    /\ ~mutationPending
    /\ hostSteps < MaxHostSteps
    /\ hostSteps' = hostSteps + 1
    /\ \E f \in EditedNotes, c \in CacheChoices :
          /\ c # fileCache[f]
          /\ fileCache' = [fileCache EXCEPT ![f] = c]
    /\ log' = NoLog
    /\ UNCHANGED <<settings, saved, dom, activeView, connected, timers, processTimer,
                   observed, mutationPending, burst, probe>>

(***************************************************************************)
(* Specification.                                                          *)
(***************************************************************************)
Init ==
    /\ saved \in SavedChoices
    /\ settings = loadSettings(saved)
    /\ fileCache \in {[f \in Notes |-> IF f \in EditedNotes THEN c ELSE CacheAvatar(AdaPng)] :
                         c \in CacheChoices}
    /\ dom = [n \in Nodes |-> Pristine(n)]
    /\ activeView = "v1"
    /\ connected = Views
    /\ timers = <<>>
    /\ processTimer = 0
    /\ observed = {}
    /\ mutationPending = FALSE
    /\ log = NoLog
    /\ hostSteps = 0
    /\ burst = [events |-> 0, scans |-> 0, open |-> TRUE]
    /\ probe = NoProbe

Next ==
    \/ FileOpen
    \/ ActiveLeafChange
    \/ EditorChange
    \/ LayoutChange
    \/ PostProcessor
    \/ TimerScan
    \/ TimerProcess
    \/ ObserverCallback
    \/ ToggleAvatars
    \/ SetAvatarFolder
    \/ SetPeopleFolder
    \/ HostSetActive
    \/ HostClose
    \/ HostOpen
    \/ HostRerender
    \/ MetadataChange

Spec == Init /\ [][Next]_vars

(***************************************************************************)
(* A burst of editor events: up to MaxBurst editor events arrive within    *)
(* one 100 ms window, that is before the first timer fires, and then the   *)
(* timers fire; nothing else happens.  burst counts the events and the     *)
(* calls of processAllLinksInView.                                         *)
(***************************************************************************)
Counted(dr, events, open) ==
    /\ Commit(dr, NoThrow)
    /\ burst' = [events |-> burst.events + events, scans |-> burst.scans + dr.scans,
                 open |-> open]
    /\ UNCHANGED <<hostSteps, probe>>

BurstEditorChange ==
    /\ burst.open
    /\ burst.events < MaxBurst
    /\ Counted(handleEditorChange(Start, NoThrow), 1, TRUE)

BurstActiveLeafChange ==
    /\ burst.open
    /\ burst.events < MaxBurst
    /\ Counted(handleEditorChange(Start, NoThrow), 1, TRUE)

BurstTimerScan ==
    /\ timers # <<>>
    /\ Head(timers).kind = "scan"
    /\ Counted(Scan([Start EXCEPT !.timers = Tail(timers)], Head(timers).view, NoThrow),
               0, FALSE)

BurstTimerProcess ==
    /\ timers # <<>>
    /\ Head(timers).kind = "pcv"
    /\ Counted(processCurrentView([Start EXCEPT !.timers = Tail(timers)], NoThrow),
               0, FALSE)

NextBurst ==
    \/ BurstEditorChange
    \/ BurstActiveLeafChange
    \/ BurstTimerScan
    \/ BurstTimerProcess

SpecBurst == Init /\ [][NextBurst]_vars

(***************************************************************************)
(* Scans between changes of settings, metadata and content: the view is    *)
(* scanned (file-open and its trailing timer), sections are post-          *)
(* processed, and the user and the host change settings, metadata and      *)
(* content in between.                                                     *)
(***************************************************************************)
NextScans ==
    \/ FileOpen
    \/ TimerScan
    \/ PostProcessor
    \/ ToggleAvatars
    \/ SetAvatarFolder
    \/ SetPeopleFolder
    \/ HostRerender
    \/ MetadataChange

SpecScans == Init /\ [][NextScans]_vars

(***************************************************************************)
(* Host calls that throw: every callback of the engine runs with a choice  *)
(* of the host calls that throw during it, and the log names the choice.   *)
(***************************************************************************)
ViewLookupThrows == [node |-> None, calls |-> {"getActiveViewOfType"}]

FaultChoices ==
    ThrowChoices \cup
        {ViewLookupThrows,
         [node |-> None, calls |-> {"querySelectorAll"}],
         [node |-> "a1", calls |-> {"getFileCache"}],
         [node |-> "a1", calls |-> {"getResourcePath"}],
         [node |-> "c1", calls |-> {"getFileCache"}],
         [node |-> "u1", calls |-> {"text"}]}

FaultFileOpen ==
    /\ ~mutationPending
    /\ \E thr \in FaultChoices : CommitFault(processCurrentView(Start, thr), thr)
    /\ UNCHANGED <<hostSteps, burst, probe>>

FaultActiveLeafChange ==
    /\ ~mutationPending
    /\ PcvCount(timers) + 1 < MaxTimers
    /\ \E thr \in FaultChoices : CommitFault(handleEditorChange(Start, thr), thr)
    /\ UNCHANGED <<hostSteps, burst, probe>>

FaultEditorChange ==
    /\ ~mutationPending
    /\ activeView # None
    /\ PcvCount(timers) + 1 < MaxTimers
    /\ \E thr \in FaultChoices : CommitFault(handleEditorChange(Start, thr), thr)
    /\ UNCHANGED <<hostSteps, burst, probe>>

\* the layout-change handler: the view lookup and observer.observe are in
\* no try block
FaultLayoutChange ==
    /\ ~mutationPending
    /\ \E thr \in {NoThrow, ViewLookupThrows} :
          /\ observed' = IF activeView # None /\ ~HostThrows(thr, "getActiveViewOfType")
                         THEN observed \cup {activeView} ELSE observed
          /\ log' = [NoLog EXCEPT !.escaped = HostThrows(thr, "getActiveViewOfType"),
                                  !.fault = thr]
    /\ UNCHANGED <<settings, saved, fileCache, dom, activeView, connected, timers,
                   processTimer, mutationPending, hostSteps, burst, probe>>

FaultPostProcessor ==
    /\ ~mutationPending
    /\ \E el \in {"s1", "s2"}, thr \in FaultChoices :
          CommitFault(Wrote(Start, processSection([dom |-> dom, writes |-> {}], el,
                                                  ViewFilePath(ViewOf(el)), thr)), thr)
    /\ UNCHANGED <<hostSteps, burst, probe>>

FaultTimerScan ==
    /\ ~mutationPending
    /\ timers # <<>>
    /\ Head(timers).kind = "scan"
    /\ \E thr \in FaultChoices :
          CommitFault(Scan([Start EXCEPT !.timers = Tail(timers)], Head(timers).view, thr),
                      thr)
    /\ UNCHANGED <<hostSteps, burst, probe>>

FaultTimerProcess ==
    /\ ~mutationPending
    /\ timers # <<>>
    /\ Head(timers).kind = "pcv"
    /\ \E thr \in FaultChoices :
          CommitFault(processCurrentView([Start EXCEPT !.timers = Tail(timers)], thr), thr)
    /\ UNCHANGED <<hostSteps, burst, probe>>

FaultObserverCallback ==
    /\ mutationPending
    /\ \E thr \in FaultChoices : CommitFault(processCurrentView(Start, thr), thr)
    /\ UNCHANGED <<hostSteps, burst, probe>>

NextFaults ==
    \/ FaultFileOpen
    \/ FaultActiveLeafChange
    \/ FaultEditorChange
    \/ FaultLayoutChange
    \/ FaultPostProcessor
    \/ FaultTimerScan
    \/ FaultTimerProcess
    \/ FaultObserverCallback

SpecFaults == Init /\ [][NextFaults]_vars

(***************************************************************************)
(* Views that leave the document: the view is scanned (file-open, editor   *)
(* events and their timers) while the host detaches, attaches and          *)
(* re-renders views.                                                       *)
(***************************************************************************)
\* the contentEl of a view leaves the document (the leaf is closed or
\* moved); the workspace stops reporting the view as active at once or
\* only later
HostDetach ==
    /\ ~mutationPending
    /\ hostSteps < MaxHostSteps
    /\ hostSteps' = hostSteps + 1
    /\ \E v \in connected :
          /\ connected' = connected \ {v}
          /\ activeView' \in {activeView, IF activeView = v THEN None ELSE activeView}
    /\ log' = NoLog
    /\ UNCHANGED <<settings, saved, fileCache, dom, timers, processTimer, observed,
                   mutationPending, burst, probe>>

NextDetach ==
    \/ FileOpen
    \/ EditorChange
    \/ TimerScan
    \/ TimerProcess
    \/ HostDetach
    \/ HostOpen
    \/ HostRerender

SpecDetach == Init /\ [][NextDetach]_vars

(***************************************************************************)
(* The resolver on its own: an element is drawn from Probes and handed to  *)
(* tryGetLinkTarget once, with any of its lookups throwing.                *)
(***************************************************************************)
InitResolve ==
    /\ saved = <<>>
    /\ settings = loadSettings(saved)
    /\ fileCache = [f \in Notes |-> CacheAvatar(AdaPng)]
    /\ dom = [n \in Nodes |-> Pristine(n)]
    /\ activeView = "v1"
    /\ connected = Views
    /\ timers = <<>>
    /\ processTimer = 0
    /\ observed = {}
    /\ mutationPending = FALSE
    /\ log = NoLog
    /\ hostSteps = 0
    /\ burst = [events |-> 0, scans |-> 0, open |-> TRUE]
    /\ probe \in Probes

\* const targetFile = this.tryGetLinkTarget(element, sourcePath)
Resolve ==
    /\ ~probe.done
    /\ probe' = [probe EXCEPT
                    !.done = TRUE,
                    !.result = tryGetLinkTarget(ProbeDom, ProbeNode, ViewFilePath("v1"),
                                                [node |-> ProbeNode,
                                                 calls |-> probe.throws])]
    /\ UNCHANGED <<settings, saved, fileCache, dom, activeView, connected, timers,
                   processTimer, observed, mutationPending, log, hostSteps, burst>>

NextResolve == Resolve

SpecResolve == InitResolve /\ [][NextResolve]_vars

(***************************************************************************)
(* Events, then silence: the host delivers up to MaxBurst events           *)
(* (layout-change, file-open) and changes nothing in the DOM; the          *)
(* observer's callback and the timers run in between.  burst counts the    *)
(* events.                                                                 *)
(***************************************************************************)
QuietLayoutChange ==
    /\ ~mutationPending
    /\ burst.events < MaxBurst
    /\ observed' = IF activeView # None THEN observed \cup {activeView} ELSE observed
    /\ burst' = [burst EXCEPT !.events = @ + 1]
    /\ log' = NoLog
    /\ UNCHANGED <<settings, saved, fileCache, dom, activeView, connected, timers,
                   processTimer, mutationPending, hostSteps, probe>>

QuietFileOpen ==
    /\ ~mutationPending
    /\ burst.events < MaxBurst
    /\ Counted(processCurrentView(Start, NoThrow), 1, TRUE)

NextQuiet ==
    \/ QuietLayoutChange
    \/ QuietFileOpen
    \/ ObserverCallback
    \/ TimerScan

SpecQuiet == Init /\ [][NextQuiet]_vars

(***************************************************************************)
(* Properties.                                                             *)
(***************************************************************************)
MarkerClasses == {"data-link-icon", "person-link", SENTINEL}

\* the markers node n carries in DOM d: classes, the attribute, the custom
\* property
Markers(d, n) ==
    (d[n].classes \cap MarkerClasses)
        \cup ({"data-link-avatar"} \cap DOMAIN d[n].attrs)
        \cup ({"--data-link-avatar"} \cap DOMAIN d[n].style)

\* node n acquires a marker in this step
Acquires(n) == Markers(dom', n) \ Markers(dom, n) # {}

\* path is the folder or lies under it
InFolder(path, folder) == path = folder \/ StartsWith(path, folder \o <<"/">>)

\* the note the link of element e resolves to in the current DOM
TargetOf(e) == tryGetLinkTarget(dom, e, ViewFilePath(ViewOf(e)), NoThrow)

\* the link of element e resolves to a note of the people folder
ResolvesToPerson(e) ==
    /\ TargetOf(e) # None
    /\ InFolder(NotePath(TargetOf(e)), settings.peopleFolderPath)

\* the candidates of a scan of the view
Candidates(view) ==
    {e \in Nodes : \E i \in DOMAIN querySelectorAll(dom, view, ViewSelectors) :
                      querySelectorAll(dom, view, ViewSelectors)[i] = e}

\* the state is the one a scan of an attached view has just left
AfterScan == log.view # None /\ log.view \in connected

\* the avatar of note f can be shown: it is named, the avatar folder is set
\* and the adapter reports the file
AvatarAvailable(f) ==
    /\ Truthy(AvatarOf(fileCache[f]))
    /\ Truthy(settings.avatarFolderPath)
    /\ AdapterExists(settings.avatarFolderPath \o <<"/">> \o AvatarOf(fileCache[f]))

DefaultSvgPrefix ==
    <<"d", "a", "t", "a", ":", "i", "m", "a", "g", "e", "/", "s", "v", "g", "+", "x", "m",
      "l", ",">>

\* C1 (classification soundness): in any step, an element acquires a marker
\* only if it is, or is the container of, a link that resolves to a note
\* whose path is peopleFolderPath or starts with peopleFolderPath + "/".
C1_ClassificationSoundness ==
    [][\A n \in Nodes :
          Acquires(n) =>
              \E e \in Nodes : n \in {e, ElementToProcess(dom, e)} /\ ResolvesToPerson(e)]_vars

\* C2 (degradation totality): with avatars enabled, after a scan of an
\* attached view every candidate that resolves to a person note carries (on
\* the element the scan decorates for it) a non-empty data-link-avatar.
C2_DegradationTotality ==
    (AfterScan /\ settings.enableAvatars) =>
        \A e \in Candidates(log.view) :
            ResolvesToPerson(e) =>
                Truthy(getAttribute(dom, ElementToProcess(dom, e), "data-link-avatar"))

\* C3 (no-op when disabled): while enableAvatars is false no step makes an
\* element acquire a marker class, data-link-avatar or --data-link-avatar.
C3_NoOpWhenDisabled ==
    [][~settings.enableAvatars => \A n \in Nodes : ~Acquires(n)]_vars

\* C4 (debounce bound): a burst of editor events within one 100 ms window
\* causes at most 2 calls of processAllLinksInView.
C4_DebounceBound == burst.scans <= 2

\* C5 (scan idempotence): when a scan of a view directly follows a scan of
\* the same view, nothing having changed in between, the second scan makes
\* no DOM write.
C5_ScanIdempotence ==
    [][(log.view # None /\ log'.view = log.view /\ hostSteps' = hostSteps)
          => ~log'.wrote]_vars

\* C6 (decorator idempotence): processPersonLink, called with any metadata
\* on an element whose host element carries person-link-processed, leaves
\* the DOM as it is.
C6_DecoratorIdempotence ==
    \A n \in Nodes, c \in CacheChoices :
        hasClass(dom, OrElse(closest(dom, n, "cm-hmd-internal-link"), n), SENTINEL) =>
            processPersonLink([dom |-> dom, writes |-> {}], n, c, NoThrow, n).dom = dom

\* C7 (marker-set invariant): an element with person-link-processed has the
\* classes data-link-icon and person-link, a non-empty data-link-avatar u
\* and the custom property --data-link-avatar = url('u').
C7_MarkerSet ==
    \A n \in Nodes :
        hasClass(dom, n, SENTINEL) =>
            /\ {"data-link-icon", "person-link"} \subseteq dom[n].classes
            /\ Truthy(getAttribute(dom, n, "data-link-avatar"))
            /\ "--data-link-avatar" \in DOMAIN dom[n].style
            /\ dom[n].style["--data-link-avatar"] =
                   <<"u", "r", "l", "(", "'">> \o getAttribute(dom, n, "data-link-avatar")
                       \o <<"'", ")">>

\* C8 (editor-mode decoration): after a scan of an attached view, for a
\* .cm-underline span inside a .cm-hmd-internal-link container whose text
\* resolves to a person note with an available avatar, the container has
\* the full marker set and the span has data-link-icon and person-link but
\* not person-link-processed.
C8_EditorModeDecoration ==
    AfterScan =>
        \A u \in Candidates(log.view) :
            (/\ hasClass(dom, u, "cm-underline")
             /\ ElementToProcess(dom, u) # u
             /\ ResolvesToPerson(u)
             /\ AvatarAvailable(TargetOf(u)))
            => /\ Markers(dom, ElementToProcess(dom, u)) =
                      MarkerClasses \cup {"data-link-avatar", "--data-link-avatar"}
               /\ {"data-link-icon", "person-link"} \subseteq dom[u].classes
               /\ ~hasClass(dom, u, SENTINEL)

\* what a step of the engine may do to node n: add marker classes, set
\* data-link-avatar and --data-link-avatar; and only on a decorated element
\* or the underline span inside one
Contained(n) ==
    /\ dom[n].classes \subseteq dom'[n].classes
    /\ dom'[n].classes \ dom[n].classes \subseteq MarkerClasses
    /\ DOMAIN dom'[n].attrs \ DOMAIN dom[n].attrs \subseteq {"data-link-avatar"}
    /\ \A a \in DOMAIN dom[n].attrs \ {"data-link-avatar"} :
          a \in DOMAIN dom'[n].attrs /\ dom'[n].attrs[a] = dom[n].attrs[a]
    /\ DOMAIN dom'[n].style \ DOMAIN dom[n].style \subseteq {"--data-link-avatar"}
    /\ \A a \in DOMAIN dom[n].style \ {"--data-link-avatar"} :
          a \in DOMAIN dom'[n].style /\ dom'[n].style[a] = dom[n].style[a]
    /\ (dom'[n] # dom[n])
          => \/ hasClass(dom', n, SENTINEL)
             \/ /\ hasClass(dom', n, "cm-underline")
                /\ closest(dom', n, "cm-hmd-internal-link") # None
                /\ hasClass(dom', closest(dom', n, "cm-hmd-internal-link"), SENTINEL)

\* C9 (containment): a step of the engine (a scan, a post-processor run, a
\* timer or observer callback) only sets data-link-avatar and
\* --data-link-avatar and adds marker classes, keeps every other class,
\* attribute and style property, and changes decorated elements only.
C9_Containment == [][hostSteps' = hostSteps => \A n \in Nodes : Contained(n)]_vars

\* an anchor has just been decorated and keeps its own class and attributes
C9_Witness ==
    /\ log.wrote
    /\ hasClass(dom, "a1", SENTINEL)
    /\ hasClass(dom, "a1", "internal-link")
    /\ getAttribute(dom, "a1", "target") = Pristine("a1").attrs["target"]

\* C10 (avatar selection): with avatars enabled, for every candidate a scan
\* of an attached view processes (it had no sentinel) and that resolves to a
\* person note, the URL on the decorated element is the resource URL of
\* avatarFolderPath + "/" + avatarName when the avatar is available, and a
\* default-SVG data URL otherwise.
C10_AvatarSelection ==
    [][(log'.view # None /\ log'.view \in connected /\ settings.enableAvatars) =>
          \A e \in Candidates(log'.view) :
              (~hasClass(dom, e, SENTINEL) /\ ResolvesToPerson(e)) =>
                  IF AvatarAvailable(TargetOf(e))
                  THEN getAttribute(dom', ElementToProcess(dom, e), "data-link-avatar") =
                           getResourcePath(settings.avatarFolderPath \o <<"/">>
                                               \o AvatarOf(fileCache[TargetOf(e)]))
                  ELSE StartsWith(getAttribute(dom', ElementToProcess(dom, e),
                                               "data-link-avatar"),
                                  DefaultSvgPrefix)]_vars

\* the DOM as the host renders it
Fresh == [n \in Nodes |-> Pristine(n)]

\* the view's part of the DOM that one scan of the freshly rendered view
\* leaves under the current settings and metadata
FreshScan(view) ==
    ForEachViewLink([dom |-> Fresh, writes |-> {}],
                    querySelectorAll(Fresh, view, ViewSelectors),
                    ViewFilePath(view), NoThrow).dom

\* every element of DOM d is as rendered or as a scan under the current
\* settings and metadata decorates it
Settled(d) ==
    \E expected \in {[v \in Views |-> FreshScan(v)]} :
        \A n \in Nodes : d[n] \in {Pristine(n), expected[ViewOf(n)][n]}

\* every element of the view is, in DOM d, as one scan of the fresh view
\* leaves it
Converged(d, view) ==
    \E expected \in {FreshScan(view)} :
        \A n \in Nodes : ViewOf(n) = view => d[n] = expected[n]

\* C11 (convergence), as claimed: the decoration state a history ends in is
\* a function of the final content and settings, so after a scan of an
\* attached view the view is as one scan of the fresh content under the
\* current settings and metadata leaves it, whatever came before.
C11_Convergence == AfterScan => Converged(dom, log.view)

\* C11, amended: as long as the DOM holds no decoration made under other
\* settings or metadata, every step of the engine keeps it so, and a scan of
\* an attached view leaves the view as one scan of the fresh content does,
\* whatever scans and post-processor runs came before.
C11_ConvergenceOfScans ==
    [][(hostSteps' = hostSteps /\ Settled(dom)) =>
          /\ Settled(dom')
          /\ (log'.view # None /\ log'.view \in connected) => Converged(dom', log'.view)]_vars

\* a view rendered again after a settings or metadata change has been
\* scanned: anchor and editor-mode container are decorated
C11_Witness ==
    /\ AfterScan
    /\ hostSteps > 0
    /\ Settled(dom)
    /\ hasClass(dom, "a1", SENTINEL)
    /\ hasClass(dom, "c1", SENTINEL)

\* C12 (no exception escapes): whatever host call throws, no callback of
\* the engine ends by an exception that reaches the host.
C12_NoExceptionEscapes == ~log.escaped

\* C13 (refused save keeps prior settings): the folder paths a scan has
\* read are the persisted ones (the defaults when nothing is persisted); a
\* value whose save was refused is not in effect.
C13_RefusedSaveKeepsPrior ==
    AfterScan =>
        /\ settings.peopleFolderPath = loadSettings(saved).peopleFolderPath
        /\ settings.avatarFolderPath = loadSettings(saved).avatarFolderPath

\* C16 (single pending delayed scan): at most one timer is pending, counting
\* every timer the driver created.
C16_SinglePendingTimer == Len(timers) <= 1

\* C17 (scans per event): when a single editor event has been delivered and
\* all timers have fired, exactly two scans have run.
C17_TwoScansPerEvent ==
    (burst.events = 1 /\ ~burst.open /\ timers = <<>>) => burst.scans = 2

\* C18 (cancel on supersede): an event cancels every delayed scan pending
\* when it arrives, so that after the event only the timers it set itself
\* are pending: one after file-open, the tracked and the untracked one after
\* an editor event.
C18_CancelOnSupersede ==
    [][/\ FileOpen => Len(timers') <= 1
       /\ (ActiveLeafChange \/ EditorChange) => Len(timers') <= 2]_vars

\* element e is among the candidates a scan of the view selects
IsCandidate(e, view) ==
    \E selected \in {querySelectorAll(dom, view, ViewSelectors)} :
        \E i \in DOMAIN selected : selected[i] = e

\* the step is a scan of an attached view that ran to its end
ScanStep == log'.view # None /\ log'.view \in connected /\ ~log'.escaped

\* processing candidate e throws under the faults thr: the candidate is
\* reached (no sentinel), resolves to a note the code takes for a person,
\* and the file-cache lookup or the resource-URL call throws
Fails(e, thr) ==
    /\ thr.node = e
    /\ thr.calls \cap {"getFileCache", "getResourcePath"} # {}
    /\ ~hasClass(dom, e, SENTINEL)
    /\ \E t \in {tryGetLinkTarget(dom, e, ViewFilePath(ViewOf(e)), thr)} :
          /\ t # None
          /\ IsPerson(t)
          /\ \/ Throws(thr, e, "getFileCache")
             \/ AvatarAvailable(t) /\ Throws(thr, e, "getResourcePath")

\* the DOM a scan of the view without any throw makes of DOM d
ScanOf(d, view) == processAllLinksInView([dom |-> d, writes |-> {}], view, NoThrow).dom

\* the other candidates are processed as if e had not failed, and the next
\* scan processes e
Isolated(e) ==
    \E unfailed \in {ScanOf(dom, log'.view)} :
        /\ \A n \in Nodes \ {e} : dom'[n] = unfailed[n]
        /\ ScanOf(dom', log'.view) = unfailed

\* C14 (candidate failure isolation), as claimed: in a scan, a candidate
\* whose processing throws receives no sentinel, every other element ends
\* as in the scan without the failure, and the next scan processes the
\* failed candidate.
C14_FailureIsolation ==
    [][ScanStep =>
          \A e \in {log'.fault.node} \cap Nodes :
              (Fails(e, log'.fault) /\ IsCandidate(e, log'.view)) =>
                  ~hasClass(dom', e, SENTINEL) /\ Isolated(e)]_vars

\* C14, amended: the same, except that a failed editor-mode container can
\* receive the sentinel from its inner underline span, which is processed
\* later in the same scan; a failed candidate without the sentinel is left
\* as it was.
C14_FailureIsolationButContainers ==
    [][ScanStep =>
          \A e \in {log'.fault.node} \cap Nodes :
              (Fails(e, log'.fault) /\ IsCandidate(e, log'.view)) =>
                  /\ hasClass(dom', e, SENTINEL) =>
                        \E u \in Nodes \ {e} :
                            /\ IsCandidate(u, log'.view)
                            /\ hasClass(dom, u, "cm-underline")
                            /\ ElementToProcess(dom, u) = e
                  /\ ~hasClass(dom', e, SENTINEL) => dom'[e] = dom[e]
                  /\ Isolated(e)]_vars

\* a scan in which the resource-URL call threw for the anchor to Ada: the
\* anchor is left plain, the editor-mode container after it is decorated
C14_Witness ==
    /\ AfterScan
    /\ log.fault = [node |-> "a1", calls |-> {"getResourcePath"}]
    /\ AvatarAvailable("Ada")
    /\ ~hasClass(dom, "a1", SENTINEL)
    /\ hasClass(dom, "c1", SENTINEL)

\* the lookups tryGetLinkTarget makes for an element, in order
LookupOrder(e) ==
    IF hasClass(dom, e, "cm-underline") THEN <<"text", "data-href", "href">>
    ELSE <<"data-href", "href", "text">>

\* the note lookup src of element e finds, None when the element has no
\* such text or attribute or the host finds no note
Found(raw, isText, sourcePath) ==
    IF Truthy(raw) THEN getFirstLinkpathDest(Cleaned(raw, isText), sourcePath) ELSE None

Match(e, src) ==
    Found(IF src = "text" THEN TextContent(e) ELSE getAttribute(dom, e, src),
          src = "text", ViewFilePath(ViewOf(e)))

\* the first lookup, in order, that does not throw and finds a note
Hits(e, thr) ==
    {i \in 1..3 : ~Throws(thr, e, LookupOrder(e)[i]) /\ Match(e, LookupOrder(e)[i]) # None}

FirstMatch(e, thr) ==
    IF Hits(e, thr) = {} THEN None ELSE Match(e, LookupOrder(e)[Least(Hits(e, thr))])

\* C15 (resolver totality): for every element and every choice of the
\* lookups that throw, tryGetLinkTarget returns a note or null, namely what
\* the first lookup in order that does not throw and finds a note returns.
C15_ResolverTotality ==
    \A e \in Nodes, calls \in SUBSET {"text", "data-href", "href"} :
        \E thr \in {[node |-> e, calls |-> calls]} :
            \E target \in {tryGetLinkTarget(dom, e, ViewFilePath(ViewOf(e)), thr)} :
                /\ target \in Notes \cup {None}
                /\ target = FirstMatch(e, thr)

\* a scan in which both attribute lookups of the anchor to Ada threw and the
\* anchor was decorated all the same, resolved by its text
C15_Witness ==
    /\ AfterScan
    /\ log.wrote
    /\ log.fault = [node |-> "a1", calls |-> {"data-href", "href"}]
    /\ hasClass(dom, "a1", SENTINEL)

\* the step is a post-processor run on section el
RunsOn(el) ==
    /\ PostProcessor
    /\ \E thr \in ThrowChoices :
          dom' = processSection([dom |-> dom, writes |-> {}], el,
                                ViewFilePath(ViewOf(el)), thr).dom

\* C19 (post-processor frame): a post-processor run on a section leaves
\* processTimer and the pending timers as they are and changes only
\* elements inside the section.
C19_PostProcessorFrame ==
    [][\A el \in {"s1", "s2"} :
          RunsOn(el) =>
              /\ UNCHANGED <<timers, processTimer>>
              /\ \A n \in Nodes : dom'[n] # dom[n] => IsDescendant(n, el)]_vars

\* a post-processor run has decorated the anchor of the first section while
\* a timer is pending; the second section and the editor-mode link, not yet
\* scanned, are as rendered
C19_Witness ==
    /\ log.view = None
    /\ log.wrote
    /\ timers # <<>>
    /\ processTimer # 0
    /\ hasClass(dom, "a1", SENTINEL)
    /\ dom["a3"] = Pristine("a3")
    /\ dom["c1"] = Pristine("c1")

\* C20 (detached view is a no-op): a scan of a view whose contentEl is not
\* attached to the document, called at once or by the timer, writes nothing
\* to the DOM.
C20_DetachedNoOp ==
    [][(log'.view # None /\ log'.view \notin connected) =>
          /\ dom' = dom
          /\ ~log'.wrote
          /\ ~mutationPending']_vars

\* a scan has run on the detached first view, whose anchor to Ada a scan of
\* the attached view would decorate, and has left the anchor as rendered
C20_Witness ==
    /\ log.view = "v1"
    /\ "v1" \notin connected
    /\ IsPerson("Ada")
    /\ AvatarAvailable("Ada")
    /\ dom["a1"] = Pristine("a1")

\* s without its occurrences of [[ and ]]
RECURSIVE StripBrackets(_)
StripBrackets(s) ==
    IF Len(s) < 2 THEN s
    ELSE IF SubSeq(s, 1, 2) \in {<<"[", "[">>, <<"]", "]">>}
         THEN StripBrackets(SubSeq(s, 3, Len(s)))
    ELSE <<s[1]>> \o StripBrackets(Tail(s))

\* text content normalized as claimed: brackets stripped, the part before
\* an alias separator kept, trimmed, white space collapsed
NormalizedAsClaimed(s) == CollapseWS(Trim(SplitFirst(StripBrackets(s), <<"|">>)))

\* the part of s before the first sep, trimmed; s when sep does not occur
Upto(s, sep) ==
    IF Occurrences(s, sep) = {} THEN s
    ELSE Trim(SubSeq(s, 1, Least(Occurrences(s, sep)) - 1))

\* the part of s after the last [[, trimmed; s when there is no [[ or
\* nothing follows it
LastLink(s) ==
    IF Occurrences(s, <<"[", "[">>) = {} THEN s
    ELSE IF Trim(SubSeq(s, Greatest(Occurrences(s, <<"[", "[">>)) + 2, Len(s))) = <<>> THEN s
    ELSE Trim(SubSeq(s, Greatest(Occurrences(s, <<"[", "[">>)) + 2, Len(s)))

\* text content normalized as the code does: trimmed; cut before the first
\* |; cut before the first ]]; cut after the last [[; white space collapsed
NormalizedAsCoded(s) ==
    CollapseWS(LastLink(Upto(Upto(Trim(s), <<"|">>), <<"]", "]">>)))

\* the order in which the sources of the probed element are consulted
ProbeOrder ==
    IF probe.underline THEN <<"text", "data-href", "href">>
    ELSE <<"data-href", "href", "text">>

\* what the probed element holds for a source
ProbeRaw(src) ==
    CASE src = "text"      -> probe.text
      [] src = "data-href" -> probe.dataHref
      [] src = "href"      -> probe.href

\* the note the host finds for a source of the probed element: None when
\* the source is absent or its lookup throws
ProbeFinds(src, claimed) ==
    IF ~Truthy(ProbeRaw(src)) \/ src \in probe.throws THEN None
    ELSE getFirstLinkpathDest(IF src # "text" THEN Cleaned(ProbeRaw(src), FALSE)
                              ELSE IF claimed THEN NormalizedAsClaimed(probe.text)
                              ELSE NormalizedAsCoded(probe.text),
                              ViewFilePath("v1"))

\* the result of the first source, in order, whose lookup finds a note
FirstFound(claimed) ==
    IF ProbeFinds(ProbeOrder[1], claimed) # None THEN ProbeFinds(ProbeOrder[1], claimed)
    ELSE IF ProbeFinds(ProbeOrder[2], claimed) # None THEN ProbeFinds(ProbeOrder[2], claimed)
    ELSE ProbeFinds(ProbeOrder[3], claimed)

C22_FeedbackTerminates == [][ObserverCallback => ~mutationPending']_vars

\* the markers of node n stay, and its avatar attribute stays non-empty
Kept(n) ==
    /\ Markers(dom, n) \subseteq Markers(dom', n)
    /\ "data-link-avatar" \in DOMAIN dom[n].attrs =>
          dom'[n].attrs["data-link-avatar"] # <<>>

\* C23 (decoration is never retracted): no step other than the host's
\* rendering the content again takes a marker (sentinel, person-link,
\* data-link-icon, data-link-avatar, --data-link-avatar) from an element
\* or empties its avatar attribute.
C23_NeverRetracted ==
    [][dom' = dom \/ (\A n \in Nodes : Kept(n)) \/ HostRerender]_vars

\* a scan has run after the avatar folder was emptied and avatars were
\* switched off, and the anchor to Ada still carries the decoration it got
\* before
C23_Witness ==
    /\ AfterScan
    /\ ~settings.enableAvatars
    /\ settings.avatarFolderPath = <<>>
    /\ Markers(dom, "a1") = MarkerClasses \cup {"data-link-avatar", "--data-link-avatar"}

\* the pending timers that processCurrentView created
TrackedTimers(tm) == {i \in 1..Len(tm) : tm[i].kind = "scan"}

\* the step is a call of processCurrentView
CallsProcessCurrentView ==
    FileOpen \/ ActiveLeafChange \/ EditorChange \/ TimerProcess \/ ObserverCallback

\* C24 (the tracked timer handle is never leaked): at most one timer
\* created by processCurrentView is pending and processTimer is its handle,
\* so that a superseded handle never fires; a call of processCurrentView
\* with no active Markdown view leaves no such timer pending and scans
\* nothing.
C24_TrackedTimerNotLeaked ==
    [][/\ Cardinality(TrackedTimers(timers')) <= 1
       /\ \A i \in TrackedTimers(timers') : timers'[i].id = processTimer'
       /\ (activeView = None /\ CallsProcessCurrentView) =>
             /\ TrackedTimers(timers') = {}
             /\ log'.view = None]_vars

\* no Markdown view is active, the handle of a timer of processCurrentView
\* is stored, and of the timers only the one of handleEditorChange is
\* pending
C24_Witness ==
    /\ activeView = None
    /\ processTimer # 0
    /\ TrackedTimers(timers) = {}
    /\ timers # <<>>
    /\ log.view = None

\* the timers of processCurrentView that this step has set
NewTrackedTimers ==
    {i \in TrackedTimers(timers') : timers'[i].id \notin TimerIds(timers)}

\* C25 (the delayed scan targets the captured view): a timer of
\* processCurrentView is set for the view that is active when it is set,
\* and when it fires it scans that view, whatever view is active then: no
\* element of another view changes.
C25_CapturedView ==
    [][/\ \A i \in NewTrackedTimers : timers'[i].view = activeView
       /\ (timers # <<>> /\ timers' = Tail(timers) /\ TimerScan) =>
             /\ log'.view = Head(timers).view
             /\ \A n \in Nodes : ViewOf(n) # Head(timers).view => dom'[n] = dom[n]]_vars

\* the timer set while the first view was active has fired with the second
\* view active, and has scanned the first
C25_Witness ==
    /\ log.view = "v1"
    /\ activeView = "v2"
    /\ "v1" \in connected
    /\ hasClass(dom, "a1", SENTINEL)

\* the views in which this step changes an element
ChangedViews == {ViewOf(n) : n \in {m \in Nodes : dom'[m] # dom[m]}}

\* C26 (observer targets accumulate): a layout-change adds the active
\* Markdown view to the observer's targets, nothing else adds one and
\* nothing removes one; the observer's callback scans the view that is
\* active then, whichever view was changed; the host's rendering a view
\* again queues records exactly if the view is a target.
C26_ObserverTargetsAccumulate ==
    [][/\ observed \subseteq observed'
       /\ observed' # observed => LayoutChange
       /\ LayoutChange => observed' = observed \cup ({activeView} \ {None})
       /\ (mutationPending /\ ObserverCallback) => log'.view = activeView
       /\ (ChangedViews # {} /\ HostRerender) =>
             (mutationPending' <=> ChangedViews \cap observed # {})]_vars

\* the first view is a target of the observer and the second, which became
\* active without a layout-change, is not; the second has been scanned
\* while the first, rendered again, is as rendered
C26_Witness ==
    /\ observed = {"v1"}
    /\ activeView = "v2"
    /\ log.view = "v2"
    /\ hostSteps = 2
    /\ processTimer = 2
    /\ IsPerson("Ada")
    /\ AvatarAvailable("Ada")
    /\ dom["a1"] = Pristine("a1")

=============================================================================
